---- MODULE Spec2Model ----
(***************************************************************************)
(* A model of interpolate_horizon.py: the densification of a horizon       *)
(* survey on a (col,row) grid.  A run reads the data records, builds the   *)
(* point store and the axis index, infers the spacing, generates the gap   *)
(* candidates (column pass, then row pass), estimates their z with         *)
(* griddata (nearest-sample fallback for NaN), merges and writes the       *)
(* points sorted by (col,row).                                             *)
(*                                                                         *)
(* Python floats are modelled as exact rationals <<n, d>> (d > 0, lowest   *)
(* terms); a z is a record: a number, NaN, or an estimate of the library   *)
(* whose value is not computed here.  Python dicts are sequences of        *)
(* <<key, value>> pairs in insertion order.                                *)
(***************************************************************************)
EXTENDS Integers, Sequences, FiniteSets

VARIABLES input_lines, pc, via, run, target_spacing, method,
          data_points, col_row_map, points_xy, values_z,
          col_to_rows, row_to_cols, col_spacing, row_spacing,
          new_points, need_interp_indices, need_interp_points, n_col_pass,
          z_first, z_interpolated, out_open, out_lines, first_input, first_output

vars == <<input_lines, pc, via, run, target_spacing, method,
          data_points, col_row_map, points_xy, values_z,
          col_to_rows, row_to_cols, col_spacing, row_spacing,
          new_points, need_interp_indices, need_interp_points, n_col_pass,
          z_first, z_interpolated, out_open, out_lines, first_input, first_output>>

(***************************************************************************)
(* Bounds of the model.                                                    *)
(***************************************************************************)
\* the greatest number of data records of an input file
MaxPoints == 4
\* the greatest number of data records of the input files of SpecSmall and SpecCall
MaxSmallPoints == 3
\* the greatest number of data records of an input file whose output is fed to a second run
MaxRerunPoints == 3
\* the greatest target spacing (--spacing)
MaxT == 2
\* most data records of a file of profile records
MaxProfilePoints == 4
\* the grid indices the input records use
Cols == {0, 1, 2}
Rows == {0, 1, 3}

(***************************************************************************)
(* Program constants.                                                      *)
(***************************************************************************)
\* list(col_to_rows.items())[:100]
SampleLimit == 100
\* col_spacing = 4 / row_spacing = 4 when no gap > 1 was seen
DefaultSpacing == 4
\* the target spacing when --spacing is not given
DefaultTarget == 2
\* the decimals of the written x, y, z ("{x:>15.5f}")
Decimals == 100000
\* argparse: choices=['linear', 'cubic', 'nearest']
Choices == {"linear", "cubic", "nearest"}
\* a method argparse would reject
Methods == Choices \cup {"quadratic"}

(***************************************************************************)
(* Rationals.                                                              *)
(***************************************************************************)
Abs(n) == IF n < 0 THEN -n ELSE n

RECURSIVE GCD(_, _)
GCD(a, b) == IF b = 0 THEN a ELSE GCD(b, a % b)

Norm(q) == LET g == GCD(Abs(q[1]), q[2]) IN <<q[1] \div g, q[2] \div g>>

R(n) == <<n, 1>>
RAdd(a, b) == Norm(<<a[1] * b[2] + b[1] * a[2], a[2] * b[2]>>)
RSub(a, b) == Norm(<<a[1] * b[2] - b[1] * a[2], a[2] * b[2]>>)
RMul(a, b) == Norm(<<a[1] * b[1], a[2] * b[2]>>)
RLe(a, b) == a[1] * b[2] <= b[1] * a[2]
RLt(a, b) == a[1] * b[2] < b[1] * a[2]
RSign(a) == IF a[1] > 0 THEN 1 ELSE IF a[1] < 0 THEN -1 ELSE 0
RBetween(v, a, b) == (RLe(a, v) /\ RLe(v, b)) \/ (RLe(b, v) /\ RLe(v, a))

(***************************************************************************)
(* z values.                                                               *)
(***************************************************************************)
ZNum(v) == [k |-> "num", v |-> v]
\* np.nan
NaN == [k |-> "nan", v |-> 0]
\* a value the linear or cubic interpolant computed inside the hull
ZEst == [k |-> "est", v |-> 0]
IsNaN(z) == z.k = "nan"

(***************************************************************************)
(* Python dicts: sequences of <<key, value>> in insertion order.           *)
(***************************************************************************)
DictHas(d, k) == \E i \in DOMAIN d : d[i][1] = k
DictGet(d, k) == d[CHOOSE i \in DOMAIN d : d[i][1] = k][2]
DictSet(d, k, v) ==
    IF DictHas(d, k)
    THEN [i \in DOMAIN d |-> IF d[i][1] = k THEN <<k, v>> ELSE d[i]]
    ELSE Append(d, <<k, v>>)
DictKeys(d) == {d[i][1] : i \in DOMAIN d}

SeqRange(s) == {s[i] : i \in DOMAIN s}

RECURSIVE Flatten(_)
Flatten(ss) == IF ss = <<>> THEN <<>> ELSE Head(ss) \o Flatten(Tail(ss))

Prefix(s, n) == IF Len(s) <= n THEN s ELSE SubSeq(s, 1, n)

(***************************************************************************)
(* The input: the data records of the file.  A surveyed position has the   *)
(* coordinates of a sheared grid (x grows with the column and the row).    *)
(***************************************************************************)
XOf(c, r) == 6 * c + 6 * r
YOf(c, r) == 6 * r
ZOf(c, r) == 1 + c + 3 * r

Point(c, r, x, y, z) == [x |-> x, y |-> y, z |-> z, col |-> c, row |-> r]

GridLines == {Point(c, r, R(XOf(c, r)), R(YOf(c, r)), ZNum(ZOf(c, r))) : c \in Cols, r \in Rows}
Lines == GridLines
\* the records of a survey that took every second column only
SparseLines == {l \in Lines : l.col % 2 = 0}
\* the records of two profiles surveyed at uneven steps, one along column 0 and one
\* along row 0
ProfileCols == {0, 1, 3}
ProfileRows == {0, 3, 5, 7}
ProfileLines ==
    {Point(k[1], k[2], R(XOf(k[1], k[2])), R(YOf(k[1], k[2])), ZNum(ZOf(k[1], k[2]))) :
        k \in {q \in ProfileCols \X ProfileRows : q[1] = 0 \/ q[2] = 0}}
\* a second record of position (0,0), taken a little off the first one and with
\* another depth: the file then holds two records with the same (col,row)
ResurveyLines == {Point(0, 0, R(XOf(0, 0) + 1), R(YOf(0, 0) + 5), ZNum(ZOf(0, 0) + 20))}

(***************************************************************************)
(* Point store and known samples (lines 108-111).                          *)
(***************************************************************************)
Key(p) == <<p.col, p.row>>

RECURSIVE BuildColRowMap(_, _)
BuildColRowMap(ps, d) ==
    IF ps = <<>> THEN d
    ELSE BuildColRowMap(Tail(ps), DictSet(d, Key(Head(ps)), <<Head(ps).x, Head(ps).y, Head(ps).z>>))

BuildPointsXY(ps) == [i \in DOMAIN ps |-> <<ps[i].x, ps[i].y>>]
BuildValuesZ(ps) == [i \in DOMAIN ps |-> ps[i].z]

(***************************************************************************)
(* Axis index (lines 113-131): axis is "col" for col_to_rows (the rows of  *)
(* each column) and "row" for row_to_cols.                                 *)
(***************************************************************************)
AxisKey(p, axis) == IF axis = "col" THEN p.col ELSE p.row
AxisVal(p, axis) == IF axis = "col" THEN p.row ELSE p.col

\* the loop of lines 117-125: each axis key's list of values, in reading order
RECURSIVE AppendAxis(_, _, _)
AppendAxis(ps, axis, d) ==
    IF ps = <<>> THEN d
    ELSE LET p == Head(ps)
             k == AxisKey(p, axis)
             old == IF DictHas(d, k) THEN DictGet(d, k) ELSE <<>>
         IN AppendAxis(Tail(ps), axis, DictSet(d, k, Append(old, AxisVal(p, axis))))

SetMin(S) == CHOOSE m \in S : \A v \in S : m <= v

\* sorted(set(...))
RECURSIVE SortedSet(_)
SortedSet(S) == IF S = {} THEN <<>> ELSE <<SetMin(S)>> \o SortedSet(S \ {SetMin(S)})

\* the axis lists left as they were read (the sort of lines 128-131 forgotten)
SortAxisUnsorted(d) == [i \in DOMAIN d |-> <<d[i][1], d[i][2]>>]

\* lines 128-131
SortAxis(d) == [i \in DOMAIN d |-> <<d[i][1], SortedSet(SeqRange(d[i][2]))>>]

BuildAxisIndex(ps, axis) == SortAxis(AppendAxis(ps, axis, <<>>))

(***************************************************************************)
(* Spacing inference (lines 136-172).                                      *)
(***************************************************************************)
\* the positive gaps between the consecutive entries of one axis sequence
IntervalsOf(vals) ==
    IF Len(vals) > 1
    THEN SelectSeq([i \in 1..(Len(vals) - 1) |-> vals[i + 1] - vals[i]], LAMBDA g : g > 0)
    ELSE <<>>

\* lines 137-151: the gaps of the first 100 axis keys
IntervalsAll(index) ==
    LET first == Prefix(index, SampleLimit)
    IN Flatten([e \in DOMAIN first |-> IntervalsOf(first[e][2])])

CountOf(s, v) == Cardinality({i \in DOMAIN s : s[i] = v})

\* the first gap greater than 1 instead of the most frequent one
MostCommonSpacingFirst(intervals) ==
    LET filtered == {i \in DOMAIN intervals : intervals[i] > 1}
    IN IF intervals = <<>> \/ filtered = {}
       THEN DefaultSpacing
       ELSE intervals[SetMin(filtered)]

\* lines 154-172: Counter, the filter k > 1, and max by count (the first of the
\* greatest count in the counter's order, which is the order of first occurrence)
MostCommonSpacing(intervals) ==
    LET filtered == {i \in DOMAIN intervals : intervals[i] > 1}
    IN IF intervals = <<>> \/ filtered = {}
       THEN DefaultSpacing
       ELSE LET best == CHOOSE i \in filtered :
                            /\ \A j \in filtered : CountOf(intervals, intervals[j]) <= CountOf(intervals, intervals[i])
                            /\ \A j \in filtered :
                                   (j < i /\ CountOf(intervals, intervals[j]) = CountOf(intervals, intervals[i]))
                                       => intervals[j] = intervals[i]
            IN intervals[best]

(***************************************************************************)
(* Gap generation (lines 180-223).                                         *)
(***************************************************************************)
\* a range that stops after its first value
RangeSeqFirstOnly(start, stop, step) == IF start >= stop THEN <<>> ELSE <<start>>

\* range(start, stop, step), step > 0
RECURSIVE RangeSeq(_, _, _)
RangeSeq(start, stop, step) ==
    IF start >= stop THEN <<>> ELSE <<start>> \o RangeSeq(start + step, stop, step)

\* the membership test of lines 196 and 214
NotPresent(present, key) == ~DictHas(present, key)

\* lines 198-205: the candidate of column c at new_row between current_row and next_row
ColCandidate(store, c, current_row, next_row, new_row) ==
    LET y1 == DictGet(store, <<c, current_row>>)[2]
        y2 == DictGet(store, <<c, next_row>>)[2]
        ratio == Norm(<<new_row - current_row, next_row - current_row>>)
        new_y == RAdd(y1, RMul(RSub(y2, y1), ratio))
        new_x == DictGet(store, <<c, current_row>>)[1]
    IN [key |-> <<c, new_row>>, xy |-> <<new_x, new_y>>]

\* lines 216-223: the candidate of row r at new_col between current_col and next_col
RowCandidate(store, r, current_col, next_col, new_col) ==
    LET x1 == DictGet(store, <<current_col, r>>)[1]
        x2 == DictGet(store, <<next_col, r>>)[1]
        ratio == Norm(<<new_col - current_col, next_col - current_col>>)
        new_x == RAdd(x1, RMul(RSub(x2, x1), ratio))
        new_y == DictGet(store, <<current_col, r>>)[2]
    IN [key |-> <<new_col, r>>, xy |-> <<new_x, new_y>>]

\* a column gap stepped from the row after current_row instead of current_row + T
ColGapFromNextRow(store, present, T, c, current_row, next_row) ==
    LET rs == SelectSeq(RangeSeq(current_row + 1, next_row, T),
                        LAMBDA nr : NotPresent(present, <<c, nr>>))
    IN [j \in DOMAIN rs |-> ColCandidate(store, c, current_row, next_row, rs[j])]

\* lines 195-205: one gap of a column
ColGap(store, present, T, c, current_row, next_row) ==
    LET rs == SelectSeq(RangeSeq(current_row + T, next_row, T),
                        LAMBDA nr : NotPresent(present, <<c, nr>>))
    IN [j \in DOMAIN rs |-> ColCandidate(store, c, current_row, next_row, rs[j])]

\* lines 213-223: one gap of a row
RowGap(store, present, T, r, current_col, next_col) ==
    LET cs == SelectSeq(RangeSeq(current_col + T, next_col, T),
                        LAMBDA nc : NotPresent(present, <<nc, r>>))
    IN [j \in DOMAIN cs |-> RowCandidate(store, r, current_col, next_col, cs[j])]

\* lines 190-205: the column pass
ColumnPass(index, store, present, T) ==
    Flatten([e \in DOMAIN index |->
        LET c == index[e][1]
            rows == index[e][2]
        IN Flatten([i \in 1..(Len(rows) - 1) |-> ColGap(store, present, T, c, rows[i], rows[i + 1])])])

\* lines 208-223: the row pass
RowPass(index, store, present, T) ==
    Flatten([e \in DOMAIN index |->
        LET r == index[e][1]
            cols == index[e][2]
        IN Flatten([i \in 1..(Len(cols) - 1) |-> RowGap(store, present, T, r, cols[i], cols[i + 1])])])


(***************************************************************************)
(* The value estimator: scipy.interpolate.griddata (lines 229-241).        *)
(* linear and cubic triangulate the samples: they raise when the samples   *)
(* do not span the plane, and give NaN (fill_value) outside the convex     *)
(* hull; nearest gives the z of the closest sample.                        *)
(***************************************************************************)
\* a - b and a * b, not reduced to lowest terms (enough for a sign or a comparison)
RSubRaw(a, b) == <<a[1] * b[2] - b[1] * a[2], a[2] * b[2]>>
RMulRaw(a, b) == <<a[1] * b[1], a[2] * b[2]>>

\* the sign of the cross product (b - a) x (p - a)
Orient(a, b, p) ==
    RSign(RSubRaw(RMulRaw(RSubRaw(b[1], a[1]), RSubRaw(p[2], a[2])),
                  RMulRaw(RSubRaw(b[2], a[2]), RSubRaw(p[1], a[1]))))

\* no three samples span a triangle: Qhull cannot build the triangulation
Degenerate(points) ==
    \A i, j, k \in DOMAIN points :
        (i < j /\ j < k) => Orient(points[i], points[j], points[k]) = 0

InTriangle(a, b, c, p) ==
    LET o1 == Orient(a, b, p)
        o2 == Orient(b, c, p)
        o3 == Orient(c, a, p)
    IN (o1 >= 0 /\ o2 >= 0 /\ o3 >= 0) \/ (o1 <= 0 /\ o2 <= 0 /\ o3 <= 0)

\* p lies in the convex hull of the samples (in a triangle of three of them)
InHull(points, p) ==
    \E i, j, k \in DOMAIN points :
        /\ i < j /\ j < k
        /\ Orient(points[i], points[j], points[k]) # 0
        /\ InTriangle(points[i], points[j], points[k], p)

Dist2(a, b) ==
    LET dx == RSub(a[1], b[1])
        dy == RSub(a[2], b[2])
    IN RAdd(RMulRaw(dx, dx), RMulRaw(dy, dy))

\* the z of the closest sample (of the earliest one among equally close samples)
Nearest(points, values, p) ==
    LET dist == [i \in DOMAIN points |-> Dist2(points[i], p)]
        best == CHOOSE i \in DOMAIN points :
                    /\ \A j \in DOMAIN points : RLe(dist[i], dist[j])
                    /\ \A j \in DOMAIN points : j < i => RLt(dist[i], dist[j])
    IN values[best]

\* griddata raises: ValueError for an unknown method, QhullError for flat samples
GriddataRaises(points, m) ==
    \/ m \notin Choices
    \/ m \in {"linear", "cubic"} /\ Degenerate(points)

\* griddata(points, values, xi, method=m, fill_value=np.nan)
Griddata(points, values, xi, m) ==
    IF m = "nearest"
    THEN [j \in DOMAIN xi |-> Nearest(points, values, xi[j])]
    ELSE [j \in DOMAIN xi |-> IF InHull(points, xi[j]) THEN ZEst ELSE NaN]

\* the NaN estimates left as they are (no fallback)
FillNaNSkipped(points, values, xi, z) == z

\* lines 237-241: the NaN estimates are replaced by one batched nearest call
FillNaN(points, values, xi, z) ==
    LET idx == SelectSeq([j \in DOMAIN z |-> j], LAMBDA j : IsNaN(z[j]))
        z_nearest == Griddata(points, values, [t \in DOMAIN idx |-> xi[idx[t]]], "nearest")
    IN [j \in DOMAIN z |->
            IF IsNaN(z[j]) THEN z_nearest[CHOOSE t \in DOMAIN idx : idx[t] = j] ELSE z[j]]

(***************************************************************************)
(* Merge (lines 243-245) and write (lines 258-270).                        *)
(***************************************************************************)
RECURSIVE MergeFrom(_, _, _, _, _)
MergeFrom(d, indices, pts, z, i) ==
    IF i > Len(indices) THEN d
    ELSE MergeFrom(DictSet(d, indices[i], <<pts[i][1], pts[i][2], z[i]>>), indices, pts, z, i + 1)

\* a sort key of the column alone
SortKeyLeColOnly(a, b) == a[1] <= b[1]

\* key=lambda x: (x[0][0], x[0][1]): a before or equal to b
SortKeyLe(a, b) == a[1] < b[1] \/ (a[1] = b[1] /\ a[2] <= b[2])

\* item goes after the last entry whose key is not greater (a stable sort)
InsertSorted(sorted, item) ==
    LET n == Cardinality({i \in DOMAIN sorted : SortKeyLe(sorted[i][1], item[1])})
    IN SubSeq(sorted, 1, n) \o <<item>> \o SubSeq(sorted, n + 1, Len(sorted))

\* sorted(new_points.items(), key=...)
RECURSIVE SortedItems(_, _)
SortedItems(items, acc) ==
    IF items = <<>> THEN acc ELSE SortedItems(Tail(items), InsertSorted(acc, Head(items)))

\* "{x:>15.5f}": the decimal with 5 decimals nearest to q (q >= 0)
Fmt5(q) == Norm(<<(2 * q[1] * Decimals + q[2]) \div (2 * q[2]), Decimals>>)

\* line 270: the record a written line holds
WriteLine(item) ==
    Point(item[1][1], item[1][2], Fmt5(item[2][1]), Fmt5(item[2][2]), item[2][3])

WriteAll(d) == LET sorted_points == SortedItems(d, <<>>)
               IN [i \in DOMAIN sorted_points |-> WriteLine(sorted_points[i])]

(***************************************************************************)
(* The state machine.                                                      *)
(***************************************************************************)
Init ==
    /\ input_lines = <<>>
    /\ pc = "input"
    /\ via = "none"
    /\ run = 1
    /\ target_spacing = 0
    /\ method = "none"
    /\ data_points = <<>>
    /\ col_row_map = <<>>
    /\ points_xy = <<>>
    /\ values_z = <<>>
    /\ col_to_rows = <<>>
    /\ row_to_cols = <<>>
    /\ col_spacing = 0
    /\ row_spacing = 0
    /\ new_points = <<>>
    /\ need_interp_indices = <<>>
    /\ need_interp_points = <<>>
    /\ n_col_pass = 0
    /\ z_first = <<>>
    /\ z_interpolated = <<>>
    /\ out_open = FALSE
    /\ out_lines = <<>>
    /\ first_input = <<>>
    /\ first_output = <<>>

\* one more data record, one of lines, in an input file of at most n records
\* (read_horizon_file, lines 56-67)
InputLineOf(lines, n) ==
    /\ pc = "input"
    /\ Len(input_lines) < n
    /\ \E l \in lines : input_lines' = Append(input_lines, l)
    /\ UNCHANGED <<pc, via, run, target_spacing, method, data_points, col_row_map, points_xy, values_z,
                   col_to_rows, row_to_cols, col_spacing, row_spacing, new_points,
                   need_interp_indices, need_interp_points, n_col_pass, z_first, z_interpolated,
                   out_open, out_lines, first_input, first_output>>

InputLine == InputLineOf(Lines, MaxPoints)

InputLineSmall == InputLineOf(Lines, MaxSmallPoints)

InputLineSparse == InputLineOf(SparseLines, MaxPoints)

InputLineResurvey == InputLineOf(Lines \cup ResurveyLines, MaxSmallPoints)

InputLineProfile == InputLineOf(ProfileLines, MaxProfilePoints)

\* interpolate_horizon up to the spacing (lines 98-176) on the records ps
Analyze(ps) ==
    /\ data_points' = ps
    /\ IF Len(ps) = 0
       THEN /\ pc' = "empty"
            /\ UNCHANGED <<col_row_map, points_xy, values_z, col_to_rows, row_to_cols,
                           col_spacing, row_spacing>>
       ELSE /\ pc' = "analyzed"
            /\ col_row_map' = BuildColRowMap(ps, <<>>)
            /\ points_xy' = BuildPointsXY(ps)
            /\ values_z' = BuildValuesZ(ps)
            /\ LET by_col == BuildAxisIndex(ps, "col")
                   by_row == BuildAxisIndex(ps, "row")
               IN /\ col_to_rows' = by_col
                  /\ row_to_cols' = by_row
                  /\ col_spacing' = MostCommonSpacing(IntervalsAll(by_row))
                  /\ row_spacing' = MostCommonSpacing(IntervalsAll(by_col))

\* main without the choices of --method: any method reaches interpolate_horizon
MainUnchecked ==
    /\ pc = "input"
    /\ \E T \in 1..MaxT, m \in Methods :
        /\ via' = "main"
        /\ target_spacing' = T
        /\ method' = m
        /\ Analyze(input_lines)
    /\ UNCHANGED <<input_lines, run, new_points, need_interp_indices, need_interp_points,
                   n_col_pass, z_first, z_interpolated, out_open, out_lines, first_input, first_output>>

\* main (lines 293-321): argparse rejects a method outside the choices and exits;
\* otherwise interpolate_horizon starts
Main ==
    /\ pc = "input"
    /\ \E T \in 1..MaxT, m \in Methods :
        /\ via' = "main"
        /\ target_spacing' = T
        /\ method' = m
        /\ IF m \notin Choices
           THEN /\ pc' = "usage"
                /\ UNCHANGED <<data_points, col_row_map, points_xy, values_z, col_to_rows,
                               row_to_cols, col_spacing, row_spacing>>
           ELSE Analyze(input_lines)
    /\ UNCHANGED <<input_lines, run, new_points, need_interp_indices, need_interp_points,
                   n_col_pass, z_first, z_interpolated, out_open, out_lines, first_input, first_output>>

\* main run with the two file names only (lines 309-312): --spacing and --method
\* take their defaults
MainDefaults ==
    /\ pc = "input"
    /\ via' = "main"
    /\ target_spacing' = DefaultTarget
    /\ method' = "linear"
    /\ Analyze(input_lines)
    /\ UNCHANGED <<input_lines, run, new_points, need_interp_indices, need_interp_points,
                   n_col_pass, z_first, z_interpolated, out_open, out_lines, first_input, first_output>>

\* interpolate_horizon called by an importing program, with any method
Call ==
    /\ pc = "input"
    /\ \E T \in 1..MaxT, m \in Methods :
        /\ via' = "call"
        /\ target_spacing' = T
        /\ method' = m
        /\ Analyze(input_lines)
    /\ UNCHANGED <<input_lines, run, new_points, need_interp_indices, need_interp_points,
                   n_col_pass, z_first, z_interpolated, out_open, out_lines, first_input, first_output>>

\* lines 180-226: the copy of the store, the column pass, the row pass
Generate ==
    /\ pc = "analyzed"
    /\ LET copied == col_row_map
           col_cands == ColumnPass(col_to_rows, col_row_map, copied, target_spacing)
           row_cands == RowPass(row_to_cols, col_row_map, copied, target_spacing)
           cands == col_cands \o row_cands
       IN /\ new_points' = copied
          /\ need_interp_indices' = [i \in DOMAIN cands |-> cands[i].key]
          /\ need_interp_points' = [i \in DOMAIN cands |-> cands[i].xy]
          /\ n_col_pass' = Len(col_cands)
    /\ pc' = "generated"
    /\ UNCHANGED <<input_lines, via, run, target_spacing, method, data_points, col_row_map,
                   points_xy, values_z, col_to_rows, row_to_cols, col_spacing, row_spacing,
                   z_first, z_interpolated, out_open, out_lines, first_input, first_output>>

\* lines 229-252: the batched estimate, the NaN fallback and the merge
Estimate ==
    /\ pc = "generated"
    /\ IF Len(need_interp_points) = 0
       THEN /\ pc' = "merged"
            /\ UNCHANGED <<new_points, z_first, z_interpolated>>
       ELSE IF GriddataRaises(points_xy, method)
       THEN /\ pc' = "raised"
            /\ UNCHANGED <<new_points, z_first, z_interpolated>>
       ELSE LET z == Griddata(points_xy, values_z, need_interp_points, method)
                zfilled == FillNaN(points_xy, values_z, need_interp_points, z)
            IN /\ z_first' = z
               /\ z_interpolated' = zfilled
               /\ new_points' = MergeFrom(new_points, need_interp_indices, need_interp_points, zfilled, 1)
               /\ pc' = "merged"
    /\ UNCHANGED <<input_lines, via, run, target_spacing, method, data_points, col_row_map,
                   points_xy, values_z, col_to_rows, row_to_cols, col_spacing, row_spacing,
                   need_interp_indices, need_interp_points, n_col_pass, out_open, out_lines,
                   first_input, first_output>>

\* lines 258-270: the points sorted by (col,row) and written
Write ==
    /\ pc = "merged"
    /\ out_open' = TRUE
    /\ out_lines' = WriteAll(new_points)
    /\ pc' = "done"
    /\ UNCHANGED <<input_lines, via, run, target_spacing, method, data_points, col_row_map,
                   points_xy, values_z, col_to_rows, row_to_cols, col_spacing, row_spacing,
                   new_points, need_interp_indices, need_interp_points, n_col_pass,
                   z_first, z_interpolated, first_input, first_output>>

\* the tool is run again, through main, on the file it wrote, with the same spacing and method
Rerun ==
    /\ pc = "done"
    /\ run = 1
    /\ via = "main"
    /\ Len(data_points) <= MaxRerunPoints
    /\ run' = 2
    /\ first_input' = data_points
    /\ first_output' = out_lines
    /\ input_lines' = out_lines
    /\ Analyze(out_lines)
    /\ new_points' = <<>>
    /\ need_interp_indices' = <<>>
    /\ need_interp_points' = <<>>
    /\ n_col_pass' = 0
    /\ z_first' = <<>>
    /\ z_interpolated' = <<>>
    /\ out_open' = FALSE
    /\ out_lines' = <<>>
    /\ UNCHANGED <<via, target_spacing, method>>

\* single runs of the tool, through main
Next == InputLine \/ Main \/ Generate \/ Estimate \/ Write

Spec == Init /\ [][Next]_vars

\* single runs of the tool on the smaller input files
NextSmall == InputLineSmall \/ Main \/ Generate \/ Estimate \/ Write

SpecSmall == Init /\ [][NextSmall]_vars

\* the tool run on a smaller input file, and once more on the file it wrote
NextRerun == InputLineSmall \/ Main \/ Generate \/ Estimate \/ Write \/ Rerun

SpecRerun == Init /\ [][NextRerun]_vars

\* single runs of the tool on the surveys of every second column
NextSparse == InputLineSparse \/ Main \/ Generate \/ Estimate \/ Write

SpecSparse == Init /\ [][NextSparse]_vars

\* single runs of the tool on files that can hold a position twice
NextResurvey == InputLineResurvey \/ Main \/ Generate \/ Estimate \/ Write

SpecResurvey == Init /\ [][NextResurvey]_vars

\* single runs of the tool with its default options on files of profile records
NextProfile == InputLineProfile \/ MainDefaults \/ Generate \/ Estimate \/ Write

SpecProfile == Init /\ [][NextProfile]_vars

\* single runs, through main or by a direct call of interpolate_horizon
NextCall == InputLineSmall \/ Main \/ Call \/ Generate \/ Estimate \/ Write

SpecCall == Init /\ [][NextCall]_vars

(***************************************************************************)
(* Vocabulary of the properties.                                           *)
(***************************************************************************)
\* the gap generator has run in this state
Generated == pc \in {"generated", "merged", "raised", "done"}
\* the merge has run in this state
Merged == pc \in {"merged", "done"}

StoreKeys == DictKeys(col_row_map)
\* the rows the store holds for column c, the columns it holds for row r
StoreRows(c) == {k[2] : k \in {k2 \in StoreKeys : k2[1] = c}}
StoreCols(r) == {k[1] : k \in {k2 \in StoreKeys : k2[2] = r}}
\* a and b are consecutive entries of the set S
Consecutive(S, a, b) == a \in S /\ b \in S /\ a < b /\ ~\E m \in S : a < m /\ m < b

\* the candidates of the column pass and of the row pass, by position
ColPassIdx == 1..n_col_pass
RowPassIdx == (n_col_pass + 1)..Len(need_interp_indices)

\* the indices a key can take: candidates lie between existing entries
IdxSpan == SetMin(Cols \cup Rows)..(CHOOSE m \in Cols \cup Rows : \A v \in Cols \cup Rows : v <= m)

\* C1: the candidates the gap generator emitted (column pass, then row pass) hold
\* no (col,row) key twice and no key of the point store
C1_CandidateKeysUnique ==
    Generated =>
        /\ \A i, j \in DOMAIN need_interp_indices :
               i # j => need_interp_indices[i] # need_interp_indices[j]
        /\ \A i \in DOMAIN need_interp_indices : need_interp_indices[i] \notin StoreKeys

\* C2: after the merge the output mapping has no key twice, its size is the number
\* of original points plus the number of generated candidates, and no candidate key
\* is an original key
C2_OutputSize ==
    Merged =>
        /\ \A i, j \in DOMAIN new_points : i # j => new_points[i][1] # new_points[j][1]
        /\ Len(new_points) = Len(col_row_map) + Len(need_interp_points)
        /\ \A i \in DOMAIN need_interp_indices : need_interp_indices[i] \notin StoreKeys

ColumnCoordinatesOk(key, x, y) ==
    \E a, b \in StoreRows(key[1]) :
        /\ Consecutive(StoreRows(key[1]), a, b)
        /\ a < key[2] /\ key[2] < b
        /\ x = DictGet(col_row_map, <<key[1], a>>)[1]
        /\ RBetween(y, DictGet(col_row_map, <<key[1], a>>)[2], DictGet(col_row_map, <<key[1], b>>)[2])

\* C6: every candidate of the column pass has the x of the existing row below it and
\* a y between those of the existing rows around it, and so has the (x,y) the final
\* output stores for its key
C6_ColumnCoordinates ==
    /\ Generated =>
           \A i \in ColPassIdx :
               ColumnCoordinatesOk(need_interp_indices[i], need_interp_points[i][1], need_interp_points[i][2])
    /\ Merged =>
           \A i \in ColPassIdx :
               LET stored == DictGet(new_points, need_interp_indices[i])
               IN ColumnCoordinatesOk(need_interp_indices[i], stored[1], stored[2])

\* a before b in (col,row) order
KeyLt(a, b) == a[1] < b[1] \/ (a[1] = b[1] /\ a[2] < b[2])

\* C7: the written points are strictly ascending by (col,row)
C7_WrittenAscending ==
    out_open =>
        \A i \in 1..(Len(out_lines) - 1) : KeyLt(Key(out_lines[i]), Key(out_lines[i + 1]))

\* a written output of originals and candidates whose mapping was not in order
C7_Witness ==
    /\ pc = "done"
    /\ Len(need_interp_indices) > 0
    /\ \E i \in 1..(Len(new_points) - 1) : KeyLt(new_points[i + 1][1], new_points[i][1])

\* C9: the (x,y,z) the output stores for a candidate key is that of the first
\* candidate emitted for the key
C9_FirstInsertedKept ==
    Merged =>
        \A i \in DOMAIN need_interp_indices :
            (\A j \in DOMAIN need_interp_indices : j < i => need_interp_indices[j] # need_interp_indices[i])
                => DictGet(new_points, need_interp_indices[i])
                       = <<need_interp_points[i][1], need_interp_points[i][2], z_interpolated[i]>>

\* the keys the column pass has to emit: c, a + k*T below the next existing row b
ExpectedColKeys ==
    {k \in IdxSpan \X IdxSpan :
        /\ k \notin StoreKeys
        /\ \E a, b \in StoreRows(k[1]) :
               /\ Consecutive(StoreRows(k[1]), a, b)
               /\ a < k[2] /\ k[2] < b
               /\ \E n \in 1..Cardinality(IdxSpan) : k[2] = a + n * target_spacing}

\* the keys the row pass has to emit
ExpectedRowKeys ==
    {k \in IdxSpan \X IdxSpan :
        /\ k \notin StoreKeys
        /\ \E a, b \in StoreCols(k[2]) :
               /\ Consecutive(StoreCols(k[2]), a, b)
               /\ a < k[1] /\ k[1] < b
               /\ \E n \in 1..Cardinality(IdxSpan) : k[1] = a + n * target_spacing}

\* C10: when the gap generator has run, the column pass has emitted, once each, exactly the keys (c, a + k*T) strictly
\* between consecutive existing rows a < b of column c, and the row pass does so for
\* the columns of every row; a column or row with one entry yields no candidate
C10_GapEnumerationExact ==
    pc = "generated" =>
        /\ {need_interp_indices[i] : i \in ColPassIdx} = ExpectedColKeys
        /\ n_col_pass = Cardinality(ExpectedColKeys)
        /\ {need_interp_indices[i] : i \in RowPassIdx} = ExpectedRowKeys
        /\ Len(need_interp_indices) - n_col_pass = Cardinality(ExpectedRowKeys)
        /\ \A i \in ColPassIdx : Cardinality(StoreRows(need_interp_indices[i][1])) > 1
        /\ \A i \in RowPassIdx : Cardinality(StoreCols(need_interp_indices[i][2])) > 1

\* both passes emitted candidates, one gap took two of them, and a column with a
\* single entry was walked
C10_Witness ==
    /\ pc = "generated"
    /\ n_col_pass > 1
    /\ Len(need_interp_indices) > n_col_pass
    /\ \E c \in Cols : Cardinality(StoreRows(c)) = 1

\* the rows the first run's input held for column c, the columns it held for row r
FirstRows(c) == {first_input[i].row : i \in {j \in DOMAIN first_input : first_input[j].col = c}}
FirstCols(r) == {first_input[i].col : i \in {j \in DOMAIN first_input : first_input[j].row = r}}

\* C3 as stated: a second run on the first run's output, with the same spacing,
\* emits no candidate and writes the same output
C3_RerunEmitsNothing ==
    /\ (run = 2 /\ Generated) => need_interp_indices = <<>>
    /\ (run = 2 /\ pc = "done") => out_lines = first_output

\* C3 amended: the second run emits no candidate inside the span of the first
\* input's entries of its axis sequence: no column-pass key (c,r) with r between two
\* rows the first input held for column c, no row-pass key (c,r) with c between two
\* columns the first input held for row r
C3_RerunFillsNoOriginalSpan ==
    (run = 2 /\ Generated) =>
        /\ \A i \in ColPassIdx :
               LET k == need_interp_indices[i]
               IN ~\E a, b \in FirstRows(k[1]) : a < k[2] /\ k[2] < b
        /\ \A i \in RowPassIdx :
               LET k == need_interp_indices[i]
               IN ~\E a, b \in FirstCols(k[2]) : a < k[1] /\ k[1] < b

\* a second run, on an output the first run had added candidates to, emitted candidates
C3_Witness ==
    /\ run = 2
    /\ pc = "done"
    /\ Len(first_output) > Len(first_input)
    /\ Len(need_interp_indices) > 0

\* every gap between consecutive existing entries, of every column and every row, is
\* at most T
GapsWithin(T) ==
    /\ \A c \in IdxSpan : \A a, b \in StoreRows(c) : Consecutive(StoreRows(c), a, b) => b - a <= T
    /\ \A r \in IdxSpan : \A a, b \in StoreCols(r) : Consecutive(StoreCols(r), a, b) => b - a <= T

\* no candidate was generated and the output mapping is the point store
NothingAdded ==
    /\ need_interp_indices = <<>>
    /\ Merged => new_points = col_row_map

\* C4 as stated: a target spacing at least the inferred spacing of both axes
\* generates no candidate and leaves the point set as it was
C4_NoCandidatesAtInferredSpacing ==
    (Generated /\ target_spacing >= col_spacing /\ target_spacing >= row_spacing) => NothingAdded

\* C4 amended: a target spacing at least every gap between consecutive existing
\* entries of every column and row generates no candidate and leaves the output
\* mapping equal to the point store
C4_NoCandidatesAtLargestGap ==
    (Generated /\ GapsWithin(target_spacing)) => NothingAdded

\* a run on three or more points with a gap as wide as the target spacing was written
C4_Witness ==
    /\ pc = "done"
    /\ run = 1
    /\ target_spacing > 1
    /\ Len(col_row_map) > 2
    /\ GapsWithin(target_spacing)
    /\ ~GapsWithin(target_spacing - 1)

\* nothing was read, computed or written
NothingComputed ==
    /\ data_points = <<>> /\ col_row_map = <<>> /\ points_xy = <<>> /\ values_z = <<>>
    /\ col_to_rows = <<>> /\ row_to_cols = <<>> /\ col_spacing = 0 /\ row_spacing = 0
    /\ new_points = <<>> /\ need_interp_indices = <<>> /\ need_interp_points = <<>>
    /\ z_first = <<>> /\ z_interpolated = <<>>
    /\ ~out_open /\ out_lines = <<>>

UnknownMethod == via # "none" /\ method \notin Choices

\* C8 as stated: with a method outside linear, cubic, nearest the run aborts before
\* any computation and before the output is opened
C8_UnknownMethodAbortsFirst ==
    UnknownMethod => NothingComputed

\* C8 amended: through main such a run aborts before any computation or writing;
\* a direct call of interpolate_horizon computes the index, the spacing and the
\* candidates, aborts in the estimator (before the output is opened) only when there
\* is a candidate, and writes the output when there is none
C8_UnknownMethodByEntry ==
    /\ (UnknownMethod /\ via = "main") => (pc = "usage" /\ NothingComputed)
    /\ (UnknownMethod /\ via = "call") =>
           /\ pc \in {"empty", "analyzed", "generated", "raised", "merged", "done"}
           /\ Len(need_interp_points) > 0 => (pc \in {"generated", "raised"} /\ ~out_open /\ z_first = <<>>)
           /\ (pc = "raised" \/ out_open) => (col_to_rows # <<>> /\ col_spacing > 0)
           /\ out_open => need_interp_points = <<>>

\* a direct call with an unknown method wrote its output
C8_Witness ==
    /\ via = "call"
    /\ method \notin Choices
    /\ pc = "done"
    /\ out_open
    /\ Len(out_lines) > 1

(***************************************************************************)
(* C11: the known samples of the estimator and the point store.            *)
(***************************************************************************)
\* the point store's entries as samples: one (x,y) and one z per (col,row) key
StoreXY == [i \in DOMAIN col_row_map |-> <<col_row_map[i][2][1], col_row_map[i][2][2]>>]
StoreZ == [i \in DOMAIN col_row_map |-> col_row_map[i][2][3]]

\* the estimator was called on the candidates of this run
Estimated == Len(need_interp_points) > 0 /\ pc \in {"merged", "raised", "done"}

\* C11: the samples handed to the estimator are the point store's entries (every sample
\* is the last-seen record of its key), and a superseded record influences no candidate's z: the run ends
\* as it does on the store's entries, raising exactly when they make the estimator
\* raise and giving every candidate the z they give
C11_SamplesAreStore ==
    Estimated =>
        /\ \A i \in DOMAIN points_xy :
               \E j \in DOMAIN col_row_map : points_xy[i] = StoreXY[j] /\ values_z[i] = StoreZ[j]
        /\ (pc = "raised") = GriddataRaises(StoreXY, method)
        /\ pc # "raised" =>
               z_interpolated = FillNaN(StoreXY, StoreZ, need_interp_points,
                                        Griddata(StoreXY, StoreZ, need_interp_points, method))

(***************************************************************************)
(* C12: spacing inference.                                                 *)
(***************************************************************************)
\* the records read up to the first one that brings key number SampleLimit + 1 of the axis
SampledRecords(axis) ==
    {i \in DOMAIN data_points :
        Cardinality({AxisKey(data_points[j], axis) : j \in 1..i}) <= SampleLimit}
\* the first SampleLimit axis keys, in the order the file brought them
SampledKeys(axis) == {AxisKey(data_points[i], axis) : i \in SampledRecords(axis)}
\* the entries of the axis sequence of key k
AxisEntries(axis, k) ==
    {AxisVal(data_points[i], axis) : i \in {j \in DOMAIN data_points : AxisKey(data_points[j], axis) = k}}
\* the gaps between consecutive entries, one <<key, a, b>> per gap
ObservedGaps(axis) ==
    UNION {LET entries == AxisEntries(axis, k)
           IN {t \in {k} \X entries \X entries : Consecutive(entries, t[2], t[3])}
          : k \in SampledKeys(axis)}

SpacingOk(axis, s) ==
    LET gaps == ObservedGaps(axis)
        sizes == {t[3] - t[2] : t \in gaps}
        count(g) == Cardinality({t \in gaps : t[3] - t[2] = g})
    IN /\ s \in Int
       /\ s > 1
       /\ IF \E g \in sizes : g > 1
          THEN /\ s \in sizes
               /\ \A g \in sizes : g > 1 => count(g) <= count(s)
          ELSE s = 4

====
